---- MODULE Spec2Model ----
(***************************************************************************)
(* OpenAlexExtractor (src/extractor_datos_openalex.py): the one-shot batch *)
(* pipeline run_full_analysis and the steps it calls.                      *)
(*                                                                         *)
(* Python values are modelled as follows.                                  *)
(*   - a list is a sequence;                                               *)
(*   - a dict built by the program is a sequence of entries                *)
(*     [key |-> k, ...] in insertion order with pairwise distinct keys     *)
(*     (Python dicts keep insertion order, and json.dump writes it);       *)
(*   - a JSON answer of the API is a record;                               *)
(*   - None is the record None;                                            *)
(*   - a percentage (count / total) * 100 is the exact ratio               *)
(*     [num |-> count * 100, den |-> total], defined only for den # 0:     *)
(*     the division raises ZeroDivisionError otherwise.                    *)
(***************************************************************************)
EXTENDS Integers, Sequences, FiniteSets, TLC

VARIABLES
    pc,                  \* position of run_full_analysis: the step it calls next
    total_publications,  \* self.total_publications
    area_idx,            \* get_data_by_field: index of the area the loop visits next
    fields_data,         \* get_data_by_field: the dict the loop fills
    files,               \* DATA_DIR: JSON file name -> content
    charts,              \* VIZ_DIR: the PNG files saved
    trace,               \* what the run did so far, in order (calls, queries, writes, ...)
    ret,                 \* what the last step returned
    answers,             \* the answers of the API to the last step (or pass of the area loop)
    exc                  \* the exception that ended the run, "" when there is none

vars == <<pc, total_publications, area_idx, fields_data, files, charts, trace, ret,
          answers, exc>>

---------------------------------------------------------------------------
(* Bounds of the model *)

\* largest count a 'meta.count' answer carries
MaxCount == 2
\* how many of the areas of areas_conocimiento, in the listed order, a run visits
NumAreas == 2
\* longest 'group_by' list an answer carries
MaxItems == 2
\* largest count of one 'group_by' item
MaxGroupCount == 2
\* longest 'results' list an answer carries, and longest list in a file read back
MaxResults == 2
\* the most records in a page of authors or institutions (above both cut-offs)
MaxPage == 22

---------------------------------------------------------------------------
(* Python helpers *)

None == [none |-> TRUE]

\* `results and key in results`: None is falsy, a JSON object lacks the key or has it
HasKey(results, key) == results # None /\ key \in DOMAIN results

\* (count / total) * 100, total # 0
Percentage(count, total) == [num |-> count * 100, den |-> total]

RECURSIVE SeqSum(_)
SeqSum(s) == IF s = <<>> THEN 0 ELSE Head(s) + SeqSum(Tail(s))

KeysOf(d) == {d[i].key : i \in DOMAIN d}

\* d[key] = entry, for a dict d held as a sequence of entries: an existing key
\* keeps its position and takes the new entry, a new key is appended
DictSet(d, entry) ==
    IF entry.key \in KeysOf(d)
    THEN [i \in DOMAIN d |-> IF d[i].key = entry.key THEN entry ELSE d[i]]
    ELSE Append(d, entry)

\* all sequences over S of length at most n
SeqsUpTo(S, n) == UNION {[1..k -> S] : k \in 0..n}

---------------------------------------------------------------------------
(* The run's log *)

\* by is the function the event happened in; status is the HTTP status of a query
Ev(kind, what, by) == [ev |-> kind, what |-> what, by |-> by, status |-> 0]

Called(step) == Ev("call", <<step>>, step)
Returned(step) == Ev("return", <<step>>, step)
Raised(name, step) == Ev("raise", <<name>>, step)
Queried(q, step, status) == [Ev("query", q, step) EXCEPT !.status = status]
Wrote(file, step) == Ev("write", <<file>>, step)
Rendered(png, step) == Ev("render", <<png>>, step)
ReadFile(file, step) == Ev("read", <<file>>, step)

---------------------------------------------------------------------------
(* __init__ *)

current_year == 2026
five_years_ago == current_year - 5
\* self.period, the publication_year filter "<five_years_ago>-<current_year>"
period == <<five_years_ago, current_year>>

CountryFilter == "authorships.institutions.country_code:EC"
PeriodFilter == "publication_year:period"

---------------------------------------------------------------------------
(* The API: what requests.get may answer *)

Failure == [status |-> 500]
Ok(body) == [status |-> 200, json |-> body]
\* a 200 answer that carries none of 'meta', 'group_by', 'results'
OkOther == Ok([message |-> "no data"])

CountAnswers(Counts) == {Failure} \cup {Ok([meta |-> [count |-> c]]) : c \in Counts}
GroupAnswers(Lists) == {Failure} \cup {Ok([group_by |-> l]) : l \in Lists}
ResultAnswers(Lists) == {Failure} \cup {Ok([results |-> l]) : l \in Lists}

GroupItems(Keys, Counts) == {[key |-> k, count |-> c] : k \in Keys, c \in Counts}

\* query_api: the JSON of a 200 answer, None otherwise
query_api(response) == IF response.status = 200 THEN response.json ELSE None

\* a faulty variant of requests_get: a GET that is not answered 200 is sent again
requests_get_retry(t, query, step, response) ==
    IF response.status = 200
    THEN Append(t, Queried(query, step, response.status))
    ELSE t \o <<Queried(query, step, response.status), Queried(query, step, response.status)>>

\* requests.get(url, params) inside query_api: one GET per call, logged with the
\* status of its answer
requests_get(t, query, step, response) == Append(t, Queried(query, step, response.status))

---------------------------------------------------------------------------
(* The output files *)

JsonFiles == {"metadatos_generales.json", "datos_tipos_oa.json", "datos_por_areas.json",
              "autores_destacados.json", "instituciones_destacadas.json",
              "colaboracion_internacional.json", "analisis_resumido.json"}

\* a file of DATA_DIR: absent, present but not loadable as JSON, or holding data
Missing == [missing |-> TRUE]
Unreadable == [unreadable |-> TRUE]
Content(data) == [data |-> data]

\* with open(name, 'w') as f: json.dump(data, f)
json_dump(fs, name, data) == [fs EXCEPT ![name] = Content(data)]

---------------------------------------------------------------------------
(* Rendering.  A visualize_* operator gives the set of outcomes the call    *)
(* can have: the PNG files it saved, in order, and the exception it raised  *)
(* ("" when it returned).                                                   *)

Drawn(pngs) == [saved |-> pngs, exc |-> ""]
Failed(pngs, name) == [saved |-> pngs, exc |-> name]

\* plt.pie(sizes) followed by savefig(png).  pie divides the sizes by their
\* sum: an empty list draws an empty pie; sizes that sum to zero give NaN
\* wedge angles, which matplotlib either rejects with ValueError or draws as
\* nothing, depending on the build.
pie(sizes, before, png) ==
    IF sizes # <<>> /\ SeqSum(sizes) = 0
    THEN {Failed(before, "ValueError"), Drawn(Append(before, png))}
    ELSE {Drawn(Append(before, png))}

visualize_oa_types(oa_types_data) ==
    pie([i \in DOMAIN oa_types_data |-> oa_types_data[i].count], <<>>,
        "distribucion_tipos_oa.png")

\* pd.DataFrame([]) has no columns: sort_values('publicaciones') raises KeyError
visualize_fields_data(fd) ==
    IF fd = <<>>
    THEN {Failed(<<>>, "KeyError")}
    ELSE LET first == <<"areas_conocimiento_principales.png">>
             second == IF \E i \in DOMAIN fd : "porcentaje_oa" \in DOMAIN fd[i]
                       THEN Append(first, "areas_mayor_acceso_abierto.png")
                       ELSE first
         IN pie([i \in DOMAIN fd |-> fd[i].publicaciones], second,
                "distribucion_areas_conocimiento.png")

\* a faulty variant of visualize_top_authors: the second chart is saved under
\* the name of the first
visualize_top_authors_same_name(top_authors) ==
    IF top_authors = <<>>
    THEN {Failed(<<>>, "KeyError")}
    ELSE {Drawn(<<"autores_mas_productivos.png", "autores_mas_productivos.png",
                  "productividad_vs_impacto.png">>)}

visualize_top_authors(top_authors) ==
    IF top_authors = <<>>
    THEN {Failed(<<>>, "KeyError")}
    ELSE {Drawn(<<"autores_mas_productivos.png", "autores_mas_citados.png",
                  "productividad_vs_impacto.png">>)}

visualize_top_institutions(top_institutions) ==
    IF top_institutions = <<>>
    THEN {Failed(<<>>, "KeyError")}
    ELSE {Drawn(<<"instituciones_mas_productivas.png">>)}

visualize_international_collaboration(collab_data) ==
    IF collab_data = <<>>
    THEN {Failed(<<>>, "KeyError")}
    ELSE {Drawn(<<"colaboracion_internacional.png">>)}

RenderEvents(pngs, step) == [i \in DOMAIN pngs |-> Rendered(pngs[i], step)]
Range(s) == {s[i] : i \in DOMAIN s}

---------------------------------------------------------------------------
(* How a step ends *)

\* the step returns value to run_full_analysis, which calls the next step
Return(step, next, t, value) ==
    /\ pc' = next
    /\ trace' = Append(t, Returned(step))
    /\ ret' = value
    /\ exc' = exc

\* the function raises: nothing catches it, run_full_analysis ends with it
Raise(step, t, name) ==
    /\ pc' = "raised"
    /\ trace' = Append(t, Raised(name, step))
    /\ ret' = None
    /\ exc' = name

\* the tail of the steps that render: the call of the rendering function either
\* returns, and the step returns value, or raises
Render(step, renderer, next, t, outcome, value) ==
    /\ charts' = charts \cup Range(outcome.saved)
    /\ IF outcome.exc = ""
       THEN Return(step, next, t \o RenderEvents(outcome.saved, step), value)
       ELSE Raise(renderer, t \o RenderEvents(outcome.saved, step), outcome.exc)

---------------------------------------------------------------------------
(* get_general_stats *)

GeneralQuery == <<"works", CountryFilter, PeriodFilter, "per_page=1">>

\* a faulty variant of get_general_stats: without the guard on the answer, a
\* failed query still saves the metadata, with the total the extractor holds
get_general_stats_unguarded(Answers) ==
    /\ pc = "get_general_stats"
    /\ \E response \in Answers :
         LET step == "get_general_stats"
             results == query_api(response)
             t == requests_get(Append(trace, Called(step)), GeneralQuery, step, response)
             total == IF HasKey(results, "meta") THEN results.meta.count
                      ELSE total_publications
             metadata == [total_publicaciones |-> total,
                          periodo |-> period,
                          fecha_consulta |-> "today"]
         IN /\ answers' = <<response>>
            /\ total_publications' = total
            /\ files' = json_dump(files, "metadatos_generales.json", metadata)
            /\ Return(step, "get_oa_stats",
                      Append(t, Wrote("metadatos_generales.json", step)), metadata)
    /\ UNCHANGED <<area_idx, fields_data, charts>>

\* a faulty variant of get_general_stats: the count goes to the file and to the
\* caller but is not kept in self.total_publications
get_general_stats_not_kept(Answers) ==
    /\ pc = "get_general_stats"
    /\ \E response \in Answers :
         LET step == "get_general_stats"
             results == query_api(response)
             t == requests_get(Append(trace, Called(step)), GeneralQuery, step, response)
         IN /\ answers' = <<response>>
            /\ IF HasKey(results, "meta")
               THEN LET metadata == [total_publicaciones |-> results.meta.count,
                                     periodo |-> period,
                                     fecha_consulta |-> "today"]
                    IN /\ files' = json_dump(files, "metadatos_generales.json", metadata)
                       /\ Return(step, "get_oa_stats",
                                 Append(t, Wrote("metadatos_generales.json", step)), metadata)
               ELSE /\ Return(step, "get_oa_stats", t, None)
                    /\ UNCHANGED files
    /\ UNCHANGED <<total_publications, area_idx, fields_data, charts>>

get_general_stats(Answers) ==
    /\ pc = "get_general_stats"
    /\ \E response \in Answers :
         LET step == "get_general_stats"
             results == query_api(response)
             t == requests_get(Append(trace, Called(step)), GeneralQuery, step, response)
             Outcome ==
            IF HasKey(results, "meta")
            THEN LET metadata == [total_publicaciones |-> results.meta.count,
                                  periodo |-> period,
                                  fecha_consulta |-> "today"]
                 IN /\ total_publications' = results.meta.count
                    /\ files' = json_dump(files, "metadatos_generales.json", metadata)
                    /\ Return(step, "get_oa_stats",
                              Append(t, Wrote("metadatos_generales.json", step)), metadata)
            ELSE /\ Return(step, "get_oa_stats", t, None)
                 /\ UNCHANGED <<total_publications, files>>
         IN /\ answers' = <<response>>
            /\ Outcome
    /\ UNCHANGED <<area_idx, fields_data, charts>>

---------------------------------------------------------------------------
(* get_oa_stats *)

OaQuery == <<"works", CountryFilter, PeriodFilter, "is_oa:true", "per_page=1">>
OaTypesQuery == <<"works", CountryFilter, PeriodFilter, "group_by=oa_status">>

\* the loop over results['group_by']: one entry per key, count over denominator
RECURSIVE oa_types_loop(_, _, _)
oa_types_loop(items, denominator, acc) ==
    IF items = <<>>
    THEN acc
    ELSE oa_types_loop(Tail(items), denominator,
                       DictSet(acc, [key |-> Head(items).key,
                                     count |-> Head(items).count,
                                     percentage |-> Percentage(Head(items).count, denominator)]))

get_oa_stats(CountAns, GroupAns) ==
    /\ pc = "get_oa_stats"
    /\ \E response_oa \in CountAns, response_types \in GroupAns :
         LET step == "get_oa_stats"
             results_oa == query_api(response_oa)
             t1 == requests_get(Append(trace, Called(step)), OaQuery, step, response_oa)
             Outcome ==
            IF ~HasKey(results_oa, "meta")
            THEN /\ Return(step, "get_data_by_field", t1, None)
                 /\ UNCHANGED <<files, charts>>
            ELSE IF total_publications = 0
            THEN /\ Raise(step, t1, "ZeroDivisionError")
                 /\ UNCHANGED <<files, charts>>
            ELSE LET total_oa == results_oa.meta.count
                     percentage_oa == Percentage(total_oa, total_publications)
                     results_oa_types == query_api(response_types)
                     t2 == requests_get(t1, OaTypesQuery, step, response_types)
                 IN IF ~HasKey(results_oa_types, "group_by")
                    THEN /\ Return(step, "get_data_by_field", t2, None)
                         /\ UNCHANGED <<files, charts>>
                    ELSE LET oa_types_data ==
                                 oa_types_loop(results_oa_types.group_by,
                                               total_publications, <<>>)
                         IN /\ files' = json_dump(files, "datos_tipos_oa.json", oa_types_data)
                            /\ \E outcome \in visualize_oa_types(oa_types_data) :
                                 Render(step, "visualize_oa_types", "get_data_by_field",
                                        Append(t2, Wrote("datos_tipos_oa.json", step)),
                                        outcome,
                                        [total_oa |-> total_oa,
                                         percentage_oa |-> percentage_oa,
                                         oa_types |-> oa_types_data])
         IN /\ answers' = IF HasKey(results_oa, "meta") /\ total_publications # 0
                          THEN <<response_oa, response_types>>
                          ELSE <<response_oa>>
            /\ Outcome
    /\ UNCHANGED <<total_publications, area_idx, fields_data>>

---------------------------------------------------------------------------
(* get_data_by_field *)

areas_conocimiento ==
    << [id |-> "https://openalex.org/C41008148", nombre |-> "Computer science"],
       [id |-> "https://openalex.org/C86803240", nombre |-> "Biology"],
       [id |-> "https://openalex.org/C185592680", nombre |-> "Chemistry"],
       [id |-> "https://openalex.org/C127313418", nombre |-> "Engineering"],
       [id |-> "https://openalex.org/C71924100", nombre |-> "Medicine"],
       [id |-> "https://openalex.org/C33923547", nombre |-> "Physics"],
       [id |-> "https://openalex.org/C144133560", nombre |-> "Mathematics"],
       [id |-> "https://openalex.org/C162324750", nombre |-> "Economics"],
       [id |-> "https://openalex.org/C17744445", nombre |-> "Political science"],
       [id |-> "https://openalex.org/C138885662", nombre |-> "Education"],
       [id |-> "https://openalex.org/C39432304", nombre |-> "Environmental science"],
       [id |-> "https://openalex.org/C15744967", nombre |-> "Psychology"],
       [id |-> "https://openalex.org/C121332964", nombre |-> "Sociology"] >>

\* the areas a run of the model visits: the first NumAreas of the list
Areas == SubSeq(areas_conocimiento, 1, NumAreas)

AreaQuery(area_id) ==
    <<"works", CountryFilter, PeriodFilter, "concepts.id", area_id, "per_page=1">>
AreaOaQuery(area_id) ==
    <<"works", CountryFilter, PeriodFilter, "concepts.id", area_id, "is_oa:true", "per_page=1">>
AreaOaTypesQuery(area_id) ==
    <<"works", CountryFilter, PeriodFilter, "concepts.id", area_id, "group_by=oa_status">>

\* the event that opens the step, logged when the loop starts
FieldsEntry(t) ==
    IF area_idx = 1 THEN Append(t, Called("get_data_by_field")) ELSE t

\* one pass of `for area in areas_conocimiento`
get_data_by_field_area(CountAns, OaAns, GroupAns) ==
    /\ pc = "get_data_by_field"
    /\ area_idx <= Len(Areas)
    /\ \E response_area \in CountAns, response_oa \in OaAns, response_types \in GroupAns :
         LET step == "get_data_by_field"
             area_id == Areas[area_idx].id
             area_nombre == Areas[area_idx].nombre
             results_area == query_api(response_area)
             t1 == requests_get(FieldsEntry(trace), AreaQuery(area_id), step, response_area)
             Continue(t, fd) ==
                 /\ fields_data' = fd
                 /\ area_idx' = area_idx + 1
                 /\ trace' = t
                 /\ UNCHANGED <<pc, ret, exc>>
             \* the division raises; fields_data keeps what was stored before it
             Abort(t, fd) ==
                 /\ Raise(step, t, "ZeroDivisionError")
                 /\ fields_data' = fd
                 /\ UNCHANGED area_idx
             Outcome ==
            IF ~HasKey(results_area, "meta")
            THEN Continue(t1, fields_data)
            ELSE IF total_publications = 0
            THEN Abort(t1, fields_data)
            ELSE LET count == results_area.meta.count
                     entry == [key |-> area_id,
                               nombre |-> area_nombre,
                               publicaciones |-> count,
                               porcentaje |-> Percentage(count, total_publications)]
                     results_area_oa == query_api(response_oa)
                     t2 == requests_get(t1, AreaOaQuery(area_id), step, response_oa)
                 IN IF ~HasKey(results_area_oa, "meta")
                    THEN Continue(t2, DictSet(fields_data, entry))
                    ELSE IF count = 0
                    THEN Abort(t2, DictSet(fields_data, entry))
                    ELSE LET count_oa == results_area_oa.meta.count
                             entry_oa == entry @@
                                 [publicaciones_oa |-> count_oa,
                                  porcentaje_oa |-> Percentage(count_oa, count)]
                             results_area_oa_types == query_api(response_types)
                             t3 == requests_get(t2, AreaOaTypesQuery(area_id), step,
                                                response_types)
                         IN IF ~HasKey(results_area_oa_types, "group_by")
                            THEN Continue(t3, DictSet(fields_data, entry_oa))
                            ELSE Continue(t3, DictSet(fields_data, entry_oa @@
                                     [oa_status |->
                                         oa_types_loop(results_area_oa_types.group_by,
                                                       count, <<>>)]))
         IN /\ answers' =
                 IF ~HasKey(results_area, "meta") \/ total_publications = 0
                 THEN <<response_area>>
                 ELSE IF ~HasKey(query_api(response_oa), "meta")
                         \/ results_area.meta.count = 0
                 THEN <<response_area, response_oa>>
                 ELSE <<response_area, response_oa, response_types>>
            /\ Outcome
    /\ UNCHANGED <<total_publications, files, charts>>

\* a faulty variant of the end of get_data_by_field: the charts are drawn from
\* fields_data before the file is written
get_data_by_field_render_first ==
    /\ pc = "get_data_by_field"
    /\ area_idx > Len(Areas)
    /\ LET step == "get_data_by_field"
       IN \E outcome \in visualize_fields_data(fields_data) :
            LET drawn == FieldsEntry(trace) \o RenderEvents(outcome.saved, step)
            IN /\ charts' = charts \cup Range(outcome.saved)
               /\ IF outcome.exc = ""
                  THEN /\ files' = json_dump(files, "datos_por_areas.json", fields_data)
                       /\ Return(step, "get_top_authors",
                                 Append(drawn, Wrote("datos_por_areas.json", step)),
                                 fields_data)
                  ELSE /\ files' = files
                       /\ Raise("visualize_fields_data", drawn, outcome.exc)
    /\ UNCHANGED <<total_publications, area_idx, fields_data, answers>>

\* after the loop: save fields_data, render it, return it
get_data_by_field_save ==
    /\ pc = "get_data_by_field"
    /\ area_idx > Len(Areas)
    /\ LET step == "get_data_by_field"
       IN /\ files' = json_dump(files, "datos_por_areas.json", fields_data)
          /\ \E outcome \in visualize_fields_data(fields_data) :
               Render(step, "visualize_fields_data", "get_top_authors",
                      Append(FieldsEntry(trace), Wrote("datos_por_areas.json", step)),
                      outcome, fields_data)
    /\ UNCHANGED <<total_publications, area_idx, fields_data, answers>>

---------------------------------------------------------------------------
(* get_top_authors, get_top_institutions *)

\* dict.get(key, default)
Get(d, key, default) == IF key \in DOMAIN d THEN d[key] ELSE default

\* list[:n]
FirstN(list, n) == SubSeq(list, 1, IF Len(list) < n THEN Len(list) ELSE n)

TopAuthorsN == 20
TopInstitutionsN == 15

AuthorsQuery ==
    <<"authors", "last_known_institution.country_code:EC", "sort=works_count:desc", "per_page=50">>
InstitutionsQuery ==
    <<"institutions", "country_code:EC", "sort=works_count:desc", "per_page=25">>

\* author.get('last_known_institution', {}).get(...): a key present with the
\* value null gives None, and None has no .get
InstitutionIsNull(author) ==
    "last_known_institution" \in DOMAIN author /\ author.last_known_institution = None

author_data(author) ==
    LET inst == Get(author, "last_known_institution", [empty |-> TRUE])
    IN [id |-> Get(author, "id", None),
        nombre |-> Get(author, "display_name", None),
        orcid |-> Get(author, "orcid", None),
        institucion |-> Get(inst, "display_name", "Desconocida"),
        institucion_id |-> Get(inst, "id", ""),
        publicaciones_total |-> Get(author, "works_count", 0),
        citas |-> Get(author, "cited_by_count", 0)]

inst_data(inst) ==
    [id |-> Get(inst, "id", None),
     nombre |-> Get(inst, "display_name", None),
     tipo |-> Get(inst, "type", None),
     publicaciones |-> Get(inst, "works_count", 0),
     citas |-> Get(inst, "cited_by_count", 0)]

get_top_authors(Answers) ==
    /\ pc = "get_top_authors"
    /\ \E response \in Answers :
         LET step == "get_top_authors"
             results_authors == query_api(response)
             t == requests_get(Append(trace, Called(step)), AuthorsQuery, step, response)
             Outcome ==
            IF ~HasKey(results_authors, "results")
            THEN /\ Return(step, "get_top_institutions", t, <<>>)
                 /\ UNCHANGED <<files, charts>>
            ELSE LET taken == FirstN(results_authors.results, TopAuthorsN)
                 IN IF \E i \in DOMAIN taken : InstitutionIsNull(taken[i])
                    THEN /\ Raise(step, t, "AttributeError")
                         /\ UNCHANGED <<files, charts>>
                    ELSE LET top_authors == [i \in DOMAIN taken |-> author_data(taken[i])]
                         IN /\ files' = json_dump(files, "autores_destacados.json", top_authors)
                            /\ \E outcome \in visualize_top_authors(top_authors) :
                                 Render(step, "visualize_top_authors", "get_top_institutions",
                                        Append(t, Wrote("autores_destacados.json", step)),
                                        outcome, top_authors)
         IN /\ answers' = <<response>>
            /\ Outcome
    /\ UNCHANGED <<total_publications, area_idx, fields_data>>

get_top_institutions(Answers) ==
    /\ pc = "get_top_institutions"
    /\ \E response \in Answers :
         LET step == "get_top_institutions"
             results_institutions == query_api(response)
             t == requests_get(Append(trace, Called(step)), InstitutionsQuery, step, response)
             Outcome ==
            IF ~HasKey(results_institutions, "results")
            THEN /\ Return(step, "get_international_collaboration", t, <<>>)
                 /\ UNCHANGED <<files, charts>>
            ELSE LET taken == FirstN(results_institutions.results, TopInstitutionsN)
                     top_institutions == [i \in DOMAIN taken |-> inst_data(taken[i])]
                 IN /\ files' = json_dump(files, "instituciones_destacadas.json",
                                          top_institutions)
                    /\ \E outcome \in visualize_top_institutions(top_institutions) :
                         Render(step, "visualize_top_institutions",
                                "get_international_collaboration",
                                Append(t, Wrote("instituciones_destacadas.json", step)),
                                outcome, top_institutions)
         IN /\ answers' = <<response>>
            /\ Outcome
    /\ UNCHANGED <<total_publications, area_idx, fields_data>>

---------------------------------------------------------------------------
(* get_international_collaboration *)

CollabQuery == <<"works", CountryFilter, PeriodFilter, "group_by=authorships.countries">>

\* the loop over results['group_by'].  It gives the dict built so far and whether
\* a division by a zero total_publications was reached (only an item whose key
\* is not 'EC' divides).
RECURSIVE collab_loop(_, _, _)
collab_loop(items, denominator, acc) ==
    IF items = <<>>
    THEN [data |-> acc, zero_division |-> FALSE]
    ELSE IF Head(items).key # "EC"
    THEN IF denominator = 0
         THEN [data |-> acc, zero_division |-> TRUE]
         ELSE collab_loop(Tail(items), denominator,
                          DictSet(acc, [key |-> Head(items).key,
                                        count |-> Head(items).count,
                                        percentage |-> Percentage(Head(items).count,
                                                                  denominator)]))
    ELSE collab_loop(Tail(items), denominator, acc)

get_international_collaboration(Answers) ==
    /\ pc = "get_international_collaboration"
    /\ \E response \in Answers :
         LET step == "get_international_collaboration"
             results_collab == query_api(response)
             t == requests_get(Append(trace, Called(step)), CollabQuery, step, response)
             Outcome ==
            IF ~HasKey(results_collab, "group_by")
            THEN /\ Return(step, "create_summary_analysis", t, <<>>)
                 /\ UNCHANGED <<files, charts>>
            ELSE LET loop == collab_loop(results_collab.group_by, total_publications, <<>>)
                     collab_data == loop.data
                 IN IF loop.zero_division
                    THEN /\ Raise(step, t, "ZeroDivisionError")
                         /\ UNCHANGED <<files, charts>>
                    ELSE /\ files' = json_dump(files, "colaboracion_internacional.json",
                                               collab_data)
                         /\ \E outcome \in visualize_international_collaboration(collab_data) :
                              Render(step, "visualize_international_collaboration",
                                     "create_summary_analysis",
                                     Append(t, Wrote("colaboracion_internacional.json", step)),
                                     outcome, collab_data)
         IN /\ answers' = <<response>>
            /\ Outcome
    /\ UNCHANGED <<total_publications, area_idx, fields_data>>

---------------------------------------------------------------------------
(* create_summary_analysis *)

CountryPrefix == "https://openalex.org/countries/"
CountryCodes == {"EC", "US", "CO"}
\* the key the API gives for a country, as the URI form of its code
CountryUri(code) ==
    CASE code = "EC" -> "https://openalex.org/countries/EC"
      [] code = "US" -> "https://openalex.org/countries/US"
      [] code = "CO" -> "https://openalex.org/countries/CO"

\* country.replace('https://openalex.org/countries/', '')
StripCountryPrefix(country) ==
    IF \E code \in CountryCodes : country = CountryUri(code)
    THEN CHOOSE code \in CountryCodes : country = CountryUri(code)
    ELSE country

\* json.load succeeded
Loaded(file) == "data" \in DOMAIN file

\* df[cols].to_dict('records')
Columns(rows, cols) == [i \in DOMAIN rows |-> [c \in cols |-> rows[i][c]]]

\* df.sort_values(column, ascending=False): the rows in an order of non-increasing
\* column; the order of rows with equal values is left to the sorting routine
SortedDescBy(rows, column) ==
    LET n == Len(rows)
        Orders == {p \in [1..n -> 1..n] :
                      /\ \A i, j \in 1..n : i # j => p[i] # p[j]
                      /\ \A i, j \in 1..n : i < j => rows[p[i]][column] >= rows[p[j]][column]}
    IN {[i \in 1..n |-> rows[p[i]]] : p \in Orders}

collab_list(collab_data) ==
    [i \in DOMAIN collab_data |->
        [pais |-> StripCountryPrefix(collab_data[i].key),
         publicaciones |-> collab_data[i].count,
         porcentaje |-> collab_data[i].percentage]]

\* the columns of pd.DataFrame(rows): the keys of the rows
FrameColumns(rows) == UNION {DOMAIN rows[i] : i \in DOMAIN rows}

AuthorColumns == {"nombre", "institucion", "publicaciones_total"}
InstitutionColumns == {"nombre", "publicaciones", "citas"}

\* the first try block: open, json.load, then sort_values('citas'), which raises
\* KeyError on a frame without that column (an empty list gives no columns);
\* the except block resets top_authors to []
load_authors(file) ==
    IF Loaded(file) /\ "citas" \in FrameColumns(file.data) THEN file.data ELSE <<>>

\* a faulty variant of the second try block: the except block leaves a
\* placeholder row instead of an empty list
load_institutions_placeholder(file) ==
    IF Loaded(file) THEN file.data ELSE <<[nombre |-> "", publicaciones |-> 0, citas |-> 0]>>

\* the second try block: open and json.load
load_institutions(file) == IF Loaded(file) THEN file.data ELSE <<>>

\* the third try block: open, json.load, then the loop that reads data['count']
\* and data['percentage'] of every entry; the except block resets collab_data to {}
load_collab(file) ==
    IF Loaded(file) /\ \A i \in DOMAIN file.data :
                           {"key", "count", "percentage"} \subseteq DOMAIN file.data[i]
    THEN file.data ELSE <<>>

create_summary_analysis ==
    /\ pc = "create_summary_analysis"
    /\ LET step == "create_summary_analysis"
           top_authors == load_authors(files["autores_destacados.json"])
           top_institutions == load_institutions(files["instituciones_destacadas.json"])
           collab_data == load_collab(files["colaboracion_internacional.json"])
           df_collab == collab_list(collab_data)
           t == trace \o <<Called(step),
                           ReadFile("autores_destacados.json", step),
                           ReadFile("instituciones_destacadas.json", step),
                           ReadFile("colaboracion_internacional.json", step)>>
           \* df[[...]] outside the try blocks raises KeyError when a non-empty frame
           \* lacks one of the columns
           missing_column ==
               \/ top_authors # <<>> /\ ~(AuthorColumns \subseteq FrameColumns(top_authors))
               \/ top_institutions # <<>>
                  /\ ~(InstitutionColumns \subseteq FrameColumns(top_institutions))
       IN IF missing_column
          THEN /\ Raise(step, t, "KeyError")
               /\ UNCHANGED files
          ELSE \E df_authors_citas \in SortedDescBy(top_authors, "citas") :
            LET analysis_results ==
                  [autores_destacados |->
                      [total_analizados |-> Len(top_authors),
                       mas_productivos |-> Columns(top_authors, AuthorColumns),
                       mas_citados |->
                           Columns(df_authors_citas, {"nombre", "institucion", "citas"})],
                   instituciones_destacadas |->
                      [total_analizadas |-> Len(top_institutions),
                       mas_productivas |-> Columns(top_institutions, InstitutionColumns)],
                   colaboracion_internacional |->
                      [total_paises |-> Len(collab_data),
                       principales_colaboradores |->
                           Columns(df_collab, {"pais", "publicaciones", "porcentaje"})]]
            IN /\ files' = json_dump(files, "analisis_resumido.json", analysis_results)
               /\ Return(step, "finish",
                         Append(t, Wrote("analisis_resumido.json", step)), analysis_results)
    /\ UNCHANGED <<total_publications, area_idx, fields_data, charts, answers>>

---------------------------------------------------------------------------
(* run_full_analysis *)

\* the order in which run_full_analysis calls the steps
StepOrder == <<"get_general_stats", "get_oa_stats", "get_data_by_field",
               "get_top_authors", "get_top_institutions",
               "get_international_collaboration", "create_summary_analysis">>

\* the closing prints of run_full_analysis
run_full_analysis_end ==
    /\ pc = "finish"
    /\ pc' = "done"
    /\ trace' = Append(trace, Returned("run_full_analysis"))
    /\ UNCHANGED <<total_publications, area_idx, fields_data, files, charts, ret,
                   answers, exc>>

\* a fresh extractor (__init__) in fresh output directories, run_full_analysis entered
Init ==
    /\ pc = "get_general_stats"
    /\ total_publications = 0
    /\ area_idx = 1
    /\ fields_data = <<>>
    /\ files = [name \in JsonFiles |-> Missing]
    /\ charts = {}
    /\ trace = <<Called("run_full_analysis")>>
    /\ ret = None
    /\ answers = <<>>
    /\ exc = ""

(* The answers the API gives in a whole run *)

OaKeys == {"gold", "closed"}

AuthorAna == [id |-> "A1", display_name |-> "Ana", works_count |-> 3, cited_by_count |-> 1,
              last_known_institution |-> [id |-> "I1", display_name |-> "EPN"]]
AuthorBeto == [id |-> "A2", display_name |-> "Beto", works_count |-> 2, cited_by_count |-> 5]
AuthorCaro == [id |-> "A3", display_name |-> "Caro", works_count |-> 1, cited_by_count |-> 0,
               last_known_institution |-> None]

InstEpn == [id |-> "I1", display_name |-> "EPN", type |-> "education",
            works_count |-> 9, cited_by_count |-> 4]
InstUce == [id |-> "I2", display_name |-> "UCE", type |-> "education"]

RunCountAnswers == CountAnswers(0..MaxCount)
RunOaTypesAnswers ==
    GroupAnswers({<<>>, <<[key |-> "gold", count |-> 1]>>,
                  <<[key |-> "gold", count |-> 1], [key |-> "closed", count |-> 1]>>})
RunAreaCountAnswers == CountAnswers({0, 1})
RunAreaOaTypesAnswers == GroupAnswers({<<[key |-> "gold", count |-> 1]>>})
RunAuthorsAnswers ==
    ResultAnswers({<<>>, <<AuthorAna>>, <<AuthorAna, AuthorBeto>>, <<AuthorCaro>>})
RunInstitutionsAnswers == ResultAnswers({<<>>, <<InstEpn>>, <<InstEpn, InstUce>>})
RunCollabAnswers ==
    GroupAnswers({<<>>, <<[key |-> "EC", count |-> 1]>>,
                  <<[key |-> "EC", count |-> 1], [key |-> "US", count |-> 1]>>,
                  <<[key |-> "https://openalex.org/countries/EC", count |-> 1],
                    [key |-> "https://openalex.org/countries/US", count |-> 1]>>})

Next ==
    \/ get_general_stats(RunCountAnswers)
    \/ get_oa_stats(RunCountAnswers, RunOaTypesAnswers)
    \/ get_data_by_field_area(RunAreaCountAnswers, RunAreaCountAnswers, RunAreaOaTypesAnswers)
    \/ get_data_by_field_save
    \/ get_top_authors(RunAuthorsAnswers)
    \/ get_top_institutions(RunInstitutionsAnswers)
    \/ get_international_collaboration(RunCollabAnswers)
    \/ create_summary_analysis
    \/ run_full_analysis_end

Spec == Init /\ [][Next]_vars

---------------------------------------------------------------------------
(* get_oa_stats on its own: an extractor whose total_publications is any count, *)
(* and any answers of the API, lists with repeated keys and zero counts included *)

OaTypesLists == SeqsUpTo(GroupItems(OaKeys, 0..MaxGroupCount), MaxItems)

InitOaStats ==
    /\ pc = "get_oa_stats"
    /\ total_publications \in 0..MaxCount
    /\ area_idx = 1
    /\ fields_data = <<>>
    /\ files = [name \in JsonFiles |-> Missing]
    /\ charts = {}
    /\ trace = <<Called("run_full_analysis")>>
    /\ ret = None
    /\ answers = <<>>
    /\ exc = ""

NextOaStats ==
    get_oa_stats(CountAnswers(0..MaxCount) \cup {OkOther},
                 GroupAnswers(OaTypesLists) \cup {OkOther})

SpecOaStats == InitOaStats /\ [][NextOaStats]_vars

---------------------------------------------------------------------------
(* create_summary_analysis on its own: each of the three files it reads is      *)
(* absent, not loadable, or holds what the step that writes it can have written; *)
(* instituciones_destacadas.json may also hold rows of another shape            *)

StoredAuthors ==
    {[i \in DOMAIN l |-> author_data(l[i])] : l \in SeqsUpTo({AuthorAna, AuthorBeto}, MaxResults)}
StoredInstitutions ==
    {[i \in DOMAIN l |-> inst_data(l[i])] : l \in SeqsUpTo({InstEpn, InstUce}, MaxResults)}
StoredCollab ==
    {collab_loop(l, 1, <<>>).data :
        l \in SeqsUpTo(GroupItems({"EC", "US", "https://openalex.org/countries/CO"}, {1}),
                       MaxResults)}
OtherShape == <<[foo |-> 1]>>

InitSummary ==
    /\ pc = "create_summary_analysis"
    /\ total_publications = 1
    /\ area_idx = 1
    /\ fields_data = <<>>
    /\ \E a \in {Missing, Unreadable} \cup {Content(d) : d \in StoredAuthors},
          i \in {Missing, Unreadable, Content(OtherShape)}
                    \cup {Content(d) : d \in StoredInstitutions},
          c \in {Missing, Unreadable} \cup {Content(d) : d \in StoredCollab} :
         files = [name \in JsonFiles |->
                     CASE name = "autores_destacados.json" -> a
                       [] name = "instituciones_destacadas.json" -> i
                       [] name = "colaboracion_internacional.json" -> c
                       [] OTHER -> Missing]
    /\ charts = {}
    /\ trace = <<Called("run_full_analysis")>>
    /\ ret = None
    /\ answers = <<>>
    /\ exc = ""

NextSummary == create_summary_analysis

SpecSummary == InitSummary /\ [][NextSummary]_vars

---------------------------------------------------------------------------
(* get_top_authors and get_top_institutions on their own: pages of up to      *)
(* MaxPage records, shorter and longer than the cut-offs of the two steps     *)

\* the record of rank i in a page of authors, of institutions
PageAuthor(i) == [id |-> i, display_name |-> i, works_count |-> 100 - i,
                  cited_by_count |-> i % 3,
                  last_known_institution |-> [id |-> "I1", display_name |-> "EPN"]]
PageInstitution(i) == [id |-> i, display_name |-> i, type |-> "education",
                       works_count |-> 100 - i, cited_by_count |-> i % 3]

\* the pages of n records that start at rank 1 or at rank 2
AuthorPages == {[i \in 1..n |-> PageAuthor(i + k)] : n \in 0..MaxPage, k \in 0..1}
InstitutionPages == {[i \in 1..n |-> PageInstitution(i + k)] : n \in 0..MaxPage, k \in 0..1}

InitTopLists ==
    /\ pc = "get_top_authors"
    /\ total_publications = 1
    /\ area_idx = 1
    /\ fields_data = <<>>
    /\ files = [name \in JsonFiles |-> Missing]
    /\ charts = {}
    /\ trace = <<Called("run_full_analysis")>>
    /\ ret = None
    /\ answers = <<>>
    /\ exc = ""

NextTopLists ==
    \/ get_top_authors(ResultAnswers(AuthorPages))
    \/ get_top_institutions(ResultAnswers(InstitutionPages))

SpecTopLists == InitTopLists /\ [][NextTopLists]_vars

---------------------------------------------------------------------------
(* Reading the log *)

LastEvent == trace[Len(trace)]

\* the positions of the events of one kind that happened in a step
EventsIn(kind, step) == {i \in DOMAIN trace : trace[i].ev = kind /\ trace[i].by = step}

\* the positions of the queries sent so far
QueriesSent == {i \in DOMAIN trace : trace[i].ev = "query"}

\* the positions of the calls run_full_analysis made so far
StepCalls == {i \in DOMAIN trace : trace[i].ev = "call" /\ i > 1}

Renderers == {"visualize_oa_types", "visualize_fields_data", "visualize_top_authors",
              "visualize_top_institutions", "visualize_international_collaboration"}

---------------------------------------------------------------------------
(* The claims *)

\* C1: no percentage division is ever executed with a zero denominator, so
\* no run ends in ZeroDivisionError.
C1_NoZeroDenominator == exc # "ZeroDivisionError"

InRange(p) == 0 <= p.num /\ p.num <= 100 * p.den

AllInRange(d) == \A i \in DOMAIN d : InRange(d[i].percentage)

\* C2: every percentage placed in an output (the value get_oa_stats returns, and
\* the three files that carry percentages) lies between 0 and 100.
C2_PercentagesInRange ==
    /\ (LastEvent = Returned("get_oa_stats") /\ ret # None)
          => InRange(ret.percentage_oa) /\ AllInRange(ret.oa_types)
    /\ Loaded(files["datos_tipos_oa.json"]) => AllInRange(files["datos_tipos_oa.json"].data)
    /\ Loaded(files["datos_por_areas.json"]) =>
          \A i \in DOMAIN files["datos_por_areas.json"].data :
              LET area == files["datos_por_areas.json"].data[i]
              IN /\ InRange(area.porcentaje)
                 /\ "porcentaje_oa" \in DOMAIN area => InRange(area.porcentaje_oa)
                 /\ "oa_status" \in DOMAIN area => AllInRange(area.oa_status)
    /\ Loaded(files["colaboracion_internacional.json"]) =>
          AllInRange(files["colaboracion_internacional.json"].data)

\* C3: a rendering function completes without raising when the collection it
\* receives is empty (the KeyError of sorting a frame that has no columns never
\* comes out of a rendering function).
C3_RenderersTolerateEmptyInput ==
    ~(pc = "raised" /\ exc = "KeyError" /\ LastEvent.by \in Renderers)

FailFastSteps == {"get_general_stats", "get_oa_stats", "get_top_authors",
                  "get_top_institutions", "get_international_collaboration"}

\* what "nothing" is for each of those steps
Nothing(step) == IF step \in {"get_general_stats", "get_oa_stats"} THEN None ELSE <<>>

\* C4: when a query of get_general_stats, get_oa_stats (first or second query),
\* get_top_authors, get_top_institutions or get_international_collaboration is
\* answered with a non-200 status, query_api gives None, the step returns right
\* after that query with None / [] / {}, and it writes no file and renders no chart.
C4_FailedQueryReturnsNothing ==
    /\ query_api(Failure) = None
    /\ \A i \in DOMAIN trace :
         (trace[i].ev = "query" /\ trace[i].status # 200 /\ trace[i].by \in FailFastSteps)
         => /\ i < Len(trace)
            /\ trace[i + 1] = Returned(trace[i].by)
            /\ EventsIn("write", trace[i].by) = {}
            /\ EventsIn("render", trace[i].by) = {}
            /\ (i + 1 = Len(trace)) => ret = Nothing(trace[i].by)

\* C4 witness: get_oa_stats has just returned after its second query failed
C4_SecondOaQueryFailed ==
    /\ LastEvent = Returned("get_oa_stats")
    /\ \E i \in DOMAIN trace : trace[i].what = OaTypesQuery /\ trace[i].status # 200

MaxRequests(areas) == 1 + 2 + areas * 3 + 1 + 1 + 1

\* C5: no query is issued twice in a run, whether it succeeded or failed, and a
\* run issues at most 1 + 2 + 3 per area + 1 + 1 + 1 requests: 45 for the 13 areas.
C5_NoRetry ==
    LET sent == QueriesSent
    IN /\ \A i, j \in sent : i # j => trace[i].what # trace[j].what
       /\ Cardinality(sent) <= MaxRequests(Len(Areas))
       /\ MaxRequests(Len(areas_conocimiento)) = 45

\* C5 witness: a finished run in which every step issued all its queries, one of
\* which was answered with a failure
C5_AllRequestsIssued ==
    /\ pc = "done"
    /\ Cardinality(QueriesSent) = MaxRequests(Len(Areas)) - 1
    /\ \E i \in QueriesSent : trace[i].status # 200

DataSteps == <<"get_general_stats", "get_oa_stats", "get_data_by_field", "get_top_authors",
               "get_top_institutions", "get_international_collaboration">>

\* the step has returned to run_full_analysis
HasReturned(step) == \E i \in DOMAIN trace : trace[i] = Returned(step)

\* within a step: every query comes before every write, every write before
\* every render
InSequence(step) ==
    /\ \A q \in EventsIn("query", step), w \in EventsIn("write", step) : q < w
    /\ \A w \in EventsIn("write", step), r \in EventsIn("render", step) : w < r
    /\ EventsIn("write", step) # {} => EventsIn("query", step) # {}
    /\ EventsIn("render", step) # {} => EventsIn("write", step) # {}

\* C6 as stated: each data-gathering method that completes its work performs
\* exactly one query, then exactly one file write, then a chart render.
C6_OneQueryOneWriteOneRender ==
    \A k \in DOMAIN DataSteps :
        LET step == DataSteps[k]
        IN (HasReturned(step) /\ EventsIn("write", step) # {})
           => /\ Cardinality(EventsIn("query", step)) = 1
              /\ Cardinality(EventsIn("write", step)) = 1
              /\ EventsIn("render", step) # {}
              /\ InSequence(step)

\* the most queries a step sends
MaxQueries(step) ==
    CASE step = "get_oa_stats" -> 2
      [] step = "get_data_by_field" -> 3 * Len(Areas)
      [] OTHER -> 1

\* C6 (amended): each data-gathering method sends its queries first (one; two in
\* get_oa_stats; up to three per area in get_data_by_field), then writes at most
\* one JSON file, then renders its charts (none in get_general_stats); no file
\* is written before a query of the step was answered and no chart is rendered
\* before the file of the step was written.
C6_QueriesThenWriteThenRender ==
    \A k \in DOMAIN DataSteps :
        LET step == DataSteps[k]
        IN /\ InSequence(step)
           /\ Cardinality(EventsIn("query", step)) <= MaxQueries(step)
           /\ Cardinality(EventsIn("write", step)) <= 1
           /\ step = "get_general_stats" => EventsIn("render", step) = {}
           /\ (HasReturned(step) /\ step # "get_general_stats" /\ EventsIn("write", step) # {})
                 => EventsIn("render", step) # {}

\* C6 witness: get_data_by_field has returned after three queries for every
\* area, one write and its three charts
C6_FieldsStepCompleted ==
    /\ LastEvent = Returned("get_data_by_field")
    /\ Cardinality(EventsIn("query", "get_data_by_field")) = 3 * Len(Areas)
    /\ Cardinality(EventsIn("write", "get_data_by_field")) = 1
    /\ Cardinality(EventsIn("render", "get_data_by_field")) = 3

\* the calls made so far are the first steps of StepOrder, in that order, and
\* every step but the first was called right after the one before it returned
CallsInOrder ==
    \A i \in StepCalls :
        LET n == Cardinality({j \in StepCalls : j <= i})
        IN /\ n <= Len(StepOrder)
           /\ trace[i] = Called(StepOrder[n])
           /\ n > 1 => trace[i - 1] = Returned(StepOrder[n - 1])

\* create_summary_analysis reads the three files after the steps that write
\* them have returned
ReadsAfterWriters ==
    \A r \in EventsIn("read", "create_summary_analysis") :
        /\ \A step \in {"get_top_authors", "get_top_institutions",
                         "get_international_collaboration"} :
               /\ \E i \in 1..(r - 1) : trace[i] = Returned(step)
               /\ \A w \in EventsIn("write", step) : w < r

\* C7: run_full_analysis calls the seven steps in the fixed order, each after
\* the previous one returned, and when the run has ended each of the seven has
\* been called exactly once; the summary reads its files after their writers
\* have finished.
C7_SevenStepsEachOnce ==
    /\ CallsInOrder
    /\ ReadsAfterWriters
    /\ pc \in {"done", "raised"} => Cardinality(StepCalls) = Len(StepOrder)

\* the sum of the 'count' fields of a list of items or of stored categories
CountSum(d) == SeqSum([i \in DOMAIN d |-> d[i].count])

\* C8: when get_oa_stats has stored the categories of a 'group_by' list, the
\* counts in oa_types_data, and in datos_tipos_oa.json, add up to the counts of
\* all the items of that list, items with the same key included.
C8_CountsSumToGroupBy ==
    (Loaded(files["datos_tipos_oa.json"]) /\ Len(answers) = 2)
    => LET group_by == query_api(answers[2]).group_by
       IN /\ CountSum(files["datos_tipos_oa.json"].data) = CountSum(group_by)
          /\ (LastEvent = Returned("get_oa_stats")) => CountSum(ret.oa_types) = CountSum(group_by)

\* the three files hold nothing create_summary_analysis cannot take: each is
\* missing, unreadable, or as the step that writes it leaves it
InputsMissingOrAsWritten == files["instituciones_destacadas.json"] # Content(OtherShape)

\* C9: whichever of autores_destacados.json, instituciones_destacadas.json and
\* colaboracion_internacional.json are missing or unreadable,
\* create_summary_analysis returns without raising and writes what it returns
\* to analisis_resumido.json; a missing or unreadable input is reported with
\* total 0 and empty lists, a present input with its length and its own rows
\* (the columns the summary keeps; mas_citados in order of non-increasing citas;
\* pais the country key without the URI prefix).
C9_SummaryToleratesMissingInputs ==
    (pc # "create_summary_analysis" /\ InputsMissingOrAsWritten)
    => /\ pc = "finish" /\ exc = ""
       /\ LastEvent = Returned("create_summary_analysis")
       /\ files["analisis_resumido.json"] = Content(ret)
       /\ LET a == files["autores_destacados.json"]
              out == ret.autores_destacados
          IN IF Loaded(a)
             THEN /\ out.total_analizados = Len(a.data)
                  /\ out.mas_productivos = Columns(a.data, AuthorColumns)
                  /\ \E sorted \in SortedDescBy(a.data, "citas") :
                        out.mas_citados = Columns(sorted, {"nombre", "institucion", "citas"})
             ELSE out = [total_analizados |-> 0, mas_productivos |-> <<>>,
                         mas_citados |-> <<>>]
       /\ LET i == files["instituciones_destacadas.json"]
              out == ret.instituciones_destacadas
          IN IF Loaded(i)
             THEN /\ out.total_analizadas = Len(i.data)
                  /\ out.mas_productivas = Columns(i.data, InstitutionColumns)
             ELSE out = [total_analizadas |-> 0, mas_productivas |-> <<>>]
       /\ LET c == files["colaboracion_internacional.json"]
              out == ret.colaboracion_internacional
          IN IF Loaded(c)
             THEN /\ out.total_paises = Len(c.data)
                  /\ out.principales_colaboradores =
                        [k \in DOMAIN c.data |->
                            [pais |-> StripCountryPrefix(c.data[k].key),
                             publicaciones |-> c.data[k].count,
                             porcentaje |-> c.data[k].percentage]]
             ELSE out = [total_paises |-> 0, principales_colaboradores |-> <<>>]

\* C9 witness: the summary was written with the institutions file unreadable,
\* the collaboration file missing and two authors on file
C9_SummaryOfPartialInputs ==
    /\ LastEvent = Returned("create_summary_analysis")
    /\ files["instituciones_destacadas.json"] = Unreadable
    /\ files["colaboracion_internacional.json"] = Missing
    /\ Loaded(files["autores_destacados.json"])
    /\ ret.autores_destacados.total_analizados = 2
    /\ Loaded(files["analisis_resumido.json"])

\* the names of the JSON files written and of the charts rendered so far agree
\* with the output directories, and no name was written or rendered twice
WrittenOnce ==
    LET written == {i \in DOMAIN trace : trace[i].ev = "write"}
        rendered == {i \in DOMAIN trace : trace[i].ev = "render"}
    IN /\ \A i, j \in written : i # j => trace[i].what # trace[j].what
       /\ \A i, j \in rendered : i # j => trace[i].what # trace[j].what
       /\ \A name \in JsonFiles :
             Loaded(files[name]) <=> \E i \in written : trace[i].what = <<name>>
       /\ charts = {trace[i].what[1] : i \in rendered}

\* no step changes or removes a file or a chart that is there
KeptAsWritten ==
    /\ \A name \in JsonFiles : Loaded(files[name]) => files'[name] = files[name]
    /\ charts \subseteq charts'

\* C10: in a run of run_full_analysis each JSON document and each PNG chart is
\* written at most once, by one step, and a later step neither rewrites nor
\* deletes it.
C10_OutputWrittenOnce == []WrittenOnce /\ [][KeptAsWritten]_vars

\* C10 witness: a finished run that wrote the seven JSON documents and the
\* nine charts
C10_AllOutputsWritten ==
    /\ pc = "done"
    /\ \A name \in JsonFiles : Loaded(files[name])
    /\ Cardinality(charts) = 9

\* C11: whichever queries of a run are answered with a valid response and
\* whichever with a non-200 status, no step ends the run with an exception:
\* run_full_analysis goes on to create_summary_analysis and its closing step.
C11_RunsToCompletion == pc # "raised"

\* the key denotes Ecuador, as the bare code or as the URI of the country
DenotesEcuador(key) == StripCountryPrefix(key) = "EC"

\* C12: after get_international_collaboration has stored the countries of a
\* 'group_by' list, collab_data (what it returns and what is in
\* colaboracion_internacional.json, from which the chart labels are taken) has
\* no entry denoting Ecuador, be the key 'EC' or the URI of EC, and has every
\* other country key of the list with its count.
C12_EcuadorExcluded ==
    (LastEvent = Returned("get_international_collaboration")
        /\ HasKey(query_api(answers[1]), "group_by"))
    => LET group_by == query_api(answers[1]).group_by
           stored == files["colaboracion_internacional.json"].data
       IN /\ ret = stored
          /\ \A i \in DOMAIN stored : ~DenotesEcuador(stored[i].key)
          /\ \A k \in DOMAIN group_by :
                ~DenotesEcuador(group_by[k].key)
                => \E i \in DOMAIN stored : /\ stored[i].key = group_by[k].key
                                            /\ stored[i].count = group_by[k].count

\* the smaller of two numbers
Min(a, b) == IF a < b THEN a ELSE b

\* out holds one record for each of the first min(cutoff, n) records of the
\* page, in the order of the page
FirstOfPage(out, page, cutoff, count_key) ==
    /\ Len(out) = Min(cutoff, Len(page))
    /\ \A i \in DOMAIN out : /\ out[i].id = page[i].id
                             /\ out[i].nombre = page[i].display_name
                             /\ out[i][count_key] = page[i].works_count

\* C13: when its query succeeded, get_top_authors returns the first min(20, n)
\* of the n author records of the response, in the order of the response, and
\* get_top_institutions the first min(15, n) institution records; the list
\* written to autores_destacados.json / instituciones_destacadas.json is the
\* list returned.
C13_FirstRecordsInOrder ==
    /\ (LastEvent.by \in {"get_top_authors", "visualize_top_authors"}
           /\ HasKey(query_api(answers[1]), "results"))
       => /\ LastEvent = Returned("get_top_authors")
          /\ FirstOfPage(ret, query_api(answers[1]).results, 20, "publicaciones_total")
          /\ files["autores_destacados.json"] = Content(ret)
    /\ (LastEvent.by \in {"get_top_institutions", "visualize_top_institutions"}
           /\ HasKey(query_api(answers[1]), "results"))
       => /\ LastEvent = Returned("get_top_institutions")
          /\ FirstOfPage(ret, query_api(answers[1]).results, 15, "publicaciones")
          /\ files["instituciones_destacadas.json"] = Content(ret)

\* the publication years that the filter publication_year:<first>-<last> admits
YearsOfPeriod == period[1]..period[2]

\* C14: the period built in __init__, which every works query carries as its
\* publication_year filter, covers exactly 5 calendar years.
C14_PeriodSpansFiveYears ==
    /\ Cardinality(YearsOfPeriod) = 5
    /\ \A i \in QueriesSent :
          trace[i].what[1] = "works"
          => \E k \in DOMAIN trace[i].what : trace[i].what[k] = PeriodFilter

AuthorKeys == {"id", "nombre", "orcid", "institucion", "institucion_id",
               "publicaciones_total", "citas"}

\* the author record has no institution: the key is absent or its value is null
NoInstitution(author) ==
    \/ "last_known_institution" \notin DOMAIN author
    \/ author.last_known_institution = None

\* C15: when the authors query succeeded, get_top_authors does not raise, and
\* it stores one record with all seven keys for every author record of the
\* response; an author whose last_known_institution is absent or null gets
\* institucion = 'Desconocida' and institucion_id = ''.
C15_NullInstitutionTolerated ==
    (LastEvent.by \in {"get_top_authors", "visualize_top_authors"}
        /\ HasKey(query_api(answers[1]), "results"))
    => /\ LastEvent # Raised("AttributeError", "get_top_authors")
       /\ Loaded(files["autores_destacados.json"])
       /\ LET page == query_api(answers[1]).results
              out == files["autores_destacados.json"].data
          IN /\ Len(out) = Len(page)
             /\ \A i \in DOMAIN out :
                   /\ DOMAIN out[i] = AuthorKeys
                   /\ NoInstitution(page[i])
                      => out[i].institucion = "Desconocida" /\ out[i].institucion_id = ""

\* the query was sent and answered with status 200
Succeeded(query) ==
    \E i \in QueriesSent : trace[i].what = query /\ trace[i].status = 200

\* the position of the query in the log, 0 when it was not sent
SentAt(query) ==
    IF \E i \in QueriesSent : trace[i].what = query
    THEN CHOOSE i \in QueriesSent : trace[i].what = query
    ELSE 0

\* the entries that fields_data holds for an area
EntriesOf(area) == {j \in DOMAIN fields_data : fields_data[j].key = area.id}

\* entry and optional keys of an area follow the success of its three queries
NestedSuccess(area) ==
    /\ EntriesOf(area) # {} <=> Succeeded(AreaQuery(area.id))
    /\ \A j \in EntriesOf(area) :
          /\ {"publicaciones_oa", "porcentaje_oa"} \subseteq DOMAIN fields_data[j]
             <=> Succeeded(AreaOaQuery(area.id))
          /\ "publicaciones_oa" \in DOMAIN fields_data[j]
             <=> "porcentaje_oa" \in DOMAIN fields_data[j]
          /\ "oa_status" \in DOMAIN fields_data[j]
             => /\ Succeeded(AreaOaQuery(area.id))
                /\ Succeeded(AreaOaTypesQuery(area.id))

\* once get_data_by_field is over, every area was queried, in the listed order
AllAreasAttempted ==
    ((\E i \in DOMAIN trace : trace[i] = Called("get_data_by_field"))
        /\ pc # "get_data_by_field")
    => /\ \A k \in DOMAIN Areas : SentAt(AreaQuery(Areas[k].id)) > 0
       /\ \A k, l \in DOMAIN Areas :
             k < l => SentAt(AreaQuery(Areas[k].id)) < SentAt(AreaQuery(Areas[l].id))

\* no step removes or alters an entry that fields_data holds
EntriesKept ==
    \A j \in DOMAIN fields_data :
        j \in DOMAIN fields_data' /\ fields_data'[j] = fields_data[j]

\* C16: for each area, whatever happens to the other areas: fields_data has
\* an entry for it exactly when its count query succeeded; the entry has
\* 'publicaciones_oa' and 'porcentaje_oa' exactly when its open-access query
\* succeeded too, and 'oa_status' only when the group-by query succeeded as
\* well; an entry, once there, is never removed or altered; and every area is
\* attempted, in the listed order.
C16_NestedSuccessPerArea ==
    /\ [](\A k \in DOMAIN Areas : NestedSuccess(Areas[k]))
    /\ []AllAreasAttempted
    /\ [][EntriesKept]_vars

\* every percentage of the stored dict was computed with this denominator
DividedBy(d, total) == \A i \in DOMAIN d : d[i].percentage.den = total

\* self.total_publications is 0 until metadatos_generales.json is written, and
\* from then on it is the count in that file and the denominator of the
\* percentages the later steps store
TotalAsStored ==
    LET meta == files["metadatos_generales.json"]
        tipos == files["datos_tipos_oa.json"]
        areas == files["datos_por_areas.json"]
        collab == files["colaboracion_internacional.json"]
    IN /\ pc = "get_general_stats" => total_publications = 0
       /\ ~Loaded(meta) => total_publications = 0
       /\ Loaded(meta)
          => /\ meta.data.total_publicaciones = total_publications
             /\ Loaded(tipos) => DividedBy(tipos.data, meta.data.total_publicaciones)
             /\ Loaded(areas)
                => \A i \in DOMAIN areas.data :
                      areas.data[i].porcentaje.den = meta.data.total_publicaciones
             /\ Loaded(collab) => DividedBy(collab.data, meta.data.total_publicaciones)

\* a step that changes self.total_publications is get_general_stats on a
\* successful query, and the new value is the count of the response
AssignedByGeneralStats ==
    total_publications' # total_publications
    => /\ pc = "get_general_stats"
       /\ HasKey(query_api(answers'[1]), "meta")
       /\ total_publications' = query_api(answers'[1]).meta.count

\* C17: self.total_publications is 0 after construction, is assigned only by a
\* get_general_stats whose query succeeded, is left as it is by a failed
\* get_general_stats and by every other step, and when
\* metadatos_generales.json has been written its 'total_publicaciones' is the
\* value of self.total_publications that the later steps divide by.
C17_TotalPublicationsFrame == []TotalAsStored /\ [][AssignedByGeneralStats]_vars

\* C17 witness: a finished run that stored percentages of open-access types,
\* of an area and of a collaborating country, all over a total of 2
C17_TotalUsedByLaterSteps ==
    /\ pc = "done"
    /\ total_publications = 2
    /\ Loaded(files["metadatos_generales.json"])
    /\ Loaded(files["datos_tipos_oa.json"])
    /\ files["datos_tipos_oa.json"].data # <<>>
    /\ files["datos_por_areas.json"].data # <<>>
    /\ Loaded(files["colaboracion_internacional.json"])
    /\ files["colaboracion_internacional.json"].data # <<>>

====
